---- MODULE Spec2Model ----
(***************************************************************************)
(* Model of the capture and on-demand analysis engine of teaching-copilot: *)
(* the GeminiOnDemandService singleton (services/geminiService.ts, the     *)
(* version with the 'mixed' source mode) and the App component's handlers  *)
(* that drive it (App.tsx).                                                *)
(*                                                                         *)
(* JavaScript runs one task at a time, so every action below is one run    *)
(* of synchronous code: a handler up to its first await whose promise is   *)
(* settled by the platform (getUserMedia, getDisplayMedia, FileReader,     *)
(* the provider), or the continuation after such an await together with    *)
(* the microtasks it schedules.                                            *)
(***************************************************************************)
EXTENDS Integers, Sequences, FiniteSets, TLC

\* ---------------------------------------------------------------- bounds
MaxStarts == 2      \* startRecording calls per behaviour
MaxPendingStarts == 1  \* of which suspended at a time, in behaviours with analyses
MaxSegs == 4        \* non-empty segments produced per behaviour of SpecBuffer
MaxSessionSegs == 2 \* the same, in the other specifications
MaxContextSegs == 1 \* the same, in SpecContext and SpecFallback
MaxSessions == 1    \* startRecording calls per behaviour of the small specifications
MaxRequests == 1    \* analysis triggers per behaviour of the small specifications
MaxWindow == 2      \* largest window size offered (stands for 300)
DefaultWindow == 1  \* initial window size (stands for 60)
MaxAnalyses == 2    \* analysis generators suspended at the same time
MaxTriggers == 2    \* analysis triggers per behaviour
MaxRefreshes == 2   \* cache-creation calls per behaviour
MaxChunks == 1      \* text chunks streamed per full-session response

\* ------------------------------------------------------------- constants
NULL == 0

StartIds == 1..MaxStarts
AnalysisIds == 1..MaxAnalyses
WindowSizes == 0..MaxWindow
\* The windows the buffer select of the App offers (60 to 300 seconds).
OfferedWindows == 1..MaxWindow
RefreshIds == 1..MaxRefreshes
Modes == {"mic", "system", "mixed"}

TOKENS_PER_SECOND_AUDIO == 25
CHARS_PER_TOKEN_ESTIMATION == 3
MIN_CACHING_CHARS == 32000

\* The models the select offers, and the service's default.
Models == {"gemini-3-flash-preview", "gemini-2.5-flash", "gemini-2.5-flash-lite"}
DefaultModel == "gemini-2.5-flash-lite"

\* Dollars per million tokens, times 100.
DEFAULT_RATES == [inputAudio |-> 100, output |-> 250]
PRICING_RATES_PER_1M(m) ==
  CASE m = "gemini-3-flash-preview" -> [inputAudio |-> 100, output |-> 300]
    [] m = "gemini-2.5-flash" -> [inputAudio |-> 100, output |-> 250]
    [] m = "gemini-2.5-flash-lite" -> [inputAudio |-> 30, output |-> 40]
    [] OTHER -> DEFAULT_RATES

\* Lengths of the knowledge text (fullContext) the user can produce, and the
\* length of the default knowledge item.
DefaultChars == 232
\* Lengths of the system instruction, and the length of the default one.
DefaultInstructionChars == 446
InstructionChars == {0, DefaultInstructionChars}
ContextChars == {0, DefaultChars, MIN_CACHING_CHARS - 1, MIN_CACHING_CHARS,
                 MIN_CACHING_CHARS + 1}

\* The ceiling of generateFullTranscriptStream, in bytes.
MAX_AUDIO_BLOB_SIZE == 15 * 1024 * 1024

\* Byte sizes of a non-empty segment: an ordinary one, and two that bring
\* an archive to the ceiling and next to it.
SmallBlob == 1
BlobSizes == {SmallBlob, MAX_AUDIO_BLOB_SIZE - 1, MAX_AUDIO_BLOB_SIZE}

\* A knowledge text below the caching minimum and one that reaches it.
SmallOrLarge == {DefaultChars, MIN_CACHING_CHARS}

\* Lengths of a text chunk the provider returns ("" is skipped by the code).
ChunkLens == {0, 3}

\* A stream is identified by the startRecording call that acquired it and
\* by the device it came from.
StreamOf(s, dev) == <<s, dev>>

VARIABLES
  \* --- GeminiOnDemandService fields
  mediaRecorder,      \* NULL or the id of the recorder the service holds
  audioChunks,        \* rolling buffer
  fullSessionChunks,  \* full-session archive
  headerChunk,        \* NULL or the first segment
  streams,            \* this.streams
  audioContext,       \* NULL or the id of the mixing graph the service holds
  maxBufferSeconds,
  usageStats,
  currentModel,
  cachedContentName,  \* NULL or the handle a cache-creation call returned
  isCacheActive,
  \* --- platform objects the service created
  recState,           \* state of every MediaRecorder ever constructed
  liveStreams,        \* acquired streams whose tracks have not been stopped
  openContexts,       \* AudioContexts that have not been closed
  nextSeg,            \* index of the next non-empty segment
  blobSize,           \* byte size of every segment produced, by index
  \* --- App component state
  status,
  hasRecordedData,
  audioMode,
  bufferDuration,
  pendingTimers,      \* setTimeout(..., 500) callbacks of toggleRecording
  selectedModel,
  contextChars,       \* length of the merged knowledge items (fullContext)
  instructionChars,   \* length of systemInstruction
  isCacheReady,       \* last value delivered through onCacheStatusChange
  \* --- suspended async calls
  starts,             \* startRecording calls: where each is suspended
  analyses,           \* analysis generators: where each is suspended
  triggers,           \* analysis triggers so far
  lastChunk,          \* what the last step appended to liveTranscript, if anything
  lastError,          \* the rejection the last step caught, if any
  refreshes,          \* updateContextCache calls: where each is suspended
  lastEffect,         \* history of the last run of the model/cache effect
  \* --- history
  produced,           \* non-empty segments delivered since the buffers were last reset
  resized,            \* whether the window was changed since then
  wiped               \* whether no start has succeeded since the last wipe

captureVars == <<mediaRecorder, streams, audioContext>>
bufferVars == <<audioChunks, fullSessionChunks, headerChunk>>
cacheVars == <<currentModel, cachedContentName, isCacheActive, selectedModel,
               contextChars, instructionChars, isCacheReady, refreshes, lastEffect>>
svcVars == <<captureVars, bufferVars, maxBufferSeconds, usageStats>>
platVars == <<recState, liveStreams, openContexts, nextSeg, blobSize>>
appVars == <<status, hasRecordedData, audioMode, bufferDuration, pendingTimers>>
anVars == <<analyses, triggers, lastChunk, lastError>>
\* What the catch blocks can tell of a rejection: whether its message matches
\* the rate-limit patterns, and whether it matches the too-large patterns.
Errors == [rateLimit : BOOLEAN, tooLarge : BOOLEAN]
\* A rejection whose message matches neither (or which has no message).
NoMatch == [rateLimit |-> FALSE, tooLarge |-> FALSE]
NoError == [caught |-> FALSE]
\* A step that appends nothing to the transcript and catches nothing.
Quiet == lastChunk' = "none" /\ lastError' = NoError
histVars == <<produced, resized, wiped>>
vars == <<svcVars, platVars, appVars, cacheVars, starts, anVars, histVars>>

ZeroUsage == [analyzedCount |-> 0, totalAudioSeconds |-> 0, estimatedCost |-> 0]

IdleStart == [pc |-> "unused", mode |-> "mic"]
\* An analysis generator: its position, the audio it snapshotted (and how
\* many segments of it came from the rolling buffer), the request
\* it sent (model, cache reference or inline instruction), whether the usage
\* counters already held its charges when the provider call was issued, the
\* text chunks yielded so far. A generator that has returned is unused again.
IdleAnalysis == [pc |-> "unused", kind |-> "none", body |-> <<>>, rolling |-> 0,
                 model |-> "none", cached |-> NULL, inline |-> FALSE,
                 chargedAtCall |-> FALSE, chunks |-> 0]
ProviderErrors == {"RateLimited", "PayloadTooLarge", "ProviderError"}
IdleRefresh == [pc |-> "unused", model |-> "none"]
\* What the last run of the effect did: the cache handle and flag when its
\* setModel call returned, the lengths updateContextCache was called with,
\* whether it called caches.create, and the cache handle and flag when it
\* returned or suspended. At mount the effect runs on the default texts.
MountEffect ==
  [afterSetModel |-> [name |-> NULL, active |-> FALSE],
   context |-> DefaultChars, instruction |-> DefaultInstructionChars,
   attempted |-> FALSE,
   left |-> [name |-> NULL, active |-> FALSE, ready |-> FALSE]]

Init ==
  /\ mediaRecorder = NULL
  /\ audioChunks = <<>>
  /\ fullSessionChunks = <<>>
  /\ headerChunk = NULL
  /\ streams = {}
  /\ audioContext = NULL
  /\ maxBufferSeconds = DefaultWindow
  /\ usageStats = ZeroUsage
  /\ recState = [r \in StartIds |-> "none"]
  /\ liveStreams = {}
  /\ openContexts = {}
  /\ nextSeg = 1
  /\ blobSize = <<>>
  /\ status = "idle"
  /\ hasRecordedData = FALSE
  /\ audioMode = "mic"
  /\ bufferDuration = DefaultWindow
  /\ pendingTimers = 0
  /\ starts = [s \in StartIds |-> IdleStart]
  /\ analyses = [a \in AnalysisIds |-> IdleAnalysis]
  /\ triggers = 0
  /\ lastChunk = "none"
  /\ lastError = NoError
  /\ currentModel = DefaultModel
  /\ cachedContentName = NULL
  /\ isCacheActive = FALSE
  /\ selectedModel = DefaultModel
  /\ contextChars = DefaultChars
  /\ instructionChars = DefaultInstructionChars
  /\ lastEffect = MountEffect
  /\ isCacheReady = FALSE
  /\ refreshes = [p \in RefreshIds |-> IdleRefresh]
  /\ produced = <<>>
  /\ resized = FALSE
  /\ wiped = FALSE

\* ------------------------------------------------------------ the buffers

\* The last n elements of q (all of q when it is shorter).
LastN(q, n) == IF Len(q) <= n THEN q ELSE SubSeq(q, Len(q) - n + 1, Len(q))

\* Array.prototype.splice(0, n): drop the first n elements (n <= 0 drops none).
SpliceFront(q, n) == IF n <= 0 THEN q ELSE SubSeq(q, n + 1, Len(q))

\* Mutant of Trimmed: the splice count is one short.
TrimmedOneShort(q, w) == IF Len(q) > w THEN SpliceFront(q, Len(q) - w - 1) ELSE q

\* setBufferDuration: the chunks left after the window becomes w.
Trimmed(q, w) == IF Len(q) > w THEN SpliceFront(q, Len(q) - w) ELSE q

\* Mutant of Pushed: pop() in place of shift().
PushedDropsNewest(q, seg, w) ==
  LET q1 == Append(q, seg)
  IN  IF Len(q1) > w THEN SubSeq(q1, 1, Len(q1) - 1) ELSE q1

\* ondataavailable: the rolling buffer after one push under window w;
\* a single shift() when the length exceeds the window.
Pushed(q, seg, w) ==
  LET q1 == Append(q, seg)
  IN  IF Len(q1) > w THEN Tail(q1) ELSE q1

\* Mutant of HeaderAfter: the header is overwritten by every segment.
HeaderAfterLatest(h, seg) == seg

\* ondataavailable: the header after a push.
HeaderAfter(h, seg) == IF h = NULL THEN seg ELSE h

\* Mutant of Archived: the archive evicts like the rolling buffer.
ArchivedEvicting(q, seg) ==
  LET q1 == Append(q, seg)
  IN  IF Len(q1) > 2 THEN Tail(q1) ELSE q1

\* ondataavailable: the archive after a push.
Archived(q, seg) == Append(q, seg)

\* The body of mediaRecorder.ondataavailable for a blob of the given size.
OnDataAvailable(size) ==
  IF size > 0
  THEN /\ nextSeg' = nextSeg + 1
       /\ blobSize' = Append(blobSize, size)
       /\ headerChunk' = HeaderAfter(headerChunk, nextSeg)
       /\ audioChunks' = Pushed(audioChunks, nextSeg, maxBufferSeconds)
       /\ fullSessionChunks' = Archived(fullSessionChunks, nextSeg)
       /\ produced' = Append(produced, nextSeg)
  ELSE UNCHANGED <<nextSeg, blobSize, headerChunk, audioChunks, fullSessionChunks, produced>>

\* ------------------------------------------------------- capture sources

\* The acquired streams whose audio a recorder records.
SourcesOf(r) ==
  CASE starts[r].mode = "mic" -> {StreamOf(r, "mic")}
    [] starts[r].mode = "system" -> {StreamOf(r, "display")}
    [] OTHER -> {StreamOf(r, "mic"), StreamOf(r, "display")}

\* MediaRecorder states after the service stops recorder mr and the streams
\* still live are live2: stop() on a recording recorder, or the end of every
\* track it records, makes it gather its last blob and become inactive.
RecAfterStop(mr, live2) ==
  [r \in StartIds |->
     IF recState[r] = "recording" /\ (r = mr \/ SourcesOf(r) \cap live2 = {})
     THEN "flushing" ELSE recState[r]]

\* stopRecording(), entered with this.streams = strs, this.audioContext = ctx,
\* live streams live and open contexts open.
StopRecording(strs, ctx, live, open) ==
  /\ recState' = RecAfterStop(mediaRecorder, live \ strs)
  /\ liveStreams' = live \ strs
  /\ openContexts' = IF ctx # NULL THEN open \ {ctx} ELSE open
  /\ audioContext' = NULL
  /\ streams' = {}
  /\ mediaRecorder' = NULL

\* The capture engine: what the service holds and the platform objects it
\* has created.
Engine ==
  [mediaRecorder |-> mediaRecorder, streams |-> streams,
   audioContext |-> audioContext, recState |-> recState,
   liveStreams |-> liveStreams, openContexts |-> openContexts]

\* stopRecording() as a function of the engine it is called on.
AfterStop(e) ==
  LET live2 == e.liveStreams \ e.streams
  IN [mediaRecorder |-> NULL,
      streams |-> {},
      audioContext |-> NULL,
      recState |-> [r \in StartIds |->
                      IF /\ e.recState[r] = "recording"
                         /\ (r = e.mediaRecorder \/ SourcesOf(r) \cap live2 = {})
                      THEN "flushing" ELSE e.recState[r]],
      liveStreams |-> live2,
      openContexts |-> IF e.audioContext # NULL
                       THEN e.openContexts \ {e.audioContext}
                       ELSE e.openContexts]

FreeStart == {s \in StartIds : starts[s].pc = "unused"}
FirstFree(S) == CHOOSE x \in S : \A y \in S : x <= y

PendingStarts == {s \in StartIds : starts[s].pc \in {"awaitMic", "awaitDisplay"}}

\* toggleRecording, start branch, up to the first await of startRecording.
\* At most maxPending calls of startRecording are suspended at a time.
ToggleRecordingStart(maxPending) ==
  /\ status \in {"idle", "error"}
  /\ FreeStart # {}
  /\ Cardinality(PendingStarts) < maxPending
  /\ LET s == FirstFree(FreeStart)
     IN starts' = [starts EXCEPT ![s] =
                     [pc |-> IF audioMode = "system" THEN "awaitDisplay" ELSE "awaitMic",
                      mode |-> audioMode]]
  /\ streams' = {}
  /\ UNCHANGED <<mediaRecorder, audioChunks, fullSessionChunks, headerChunk,
                 audioContext, maxBufferSeconds, usageStats, platVars, appVars,
                 analyses, triggers, cacheVars, histVars>>
  /\ Quiet

\* startRecording from `new MediaRecorder` to start(1000), then the
\* continuation of toggleRecording.
StartSucceeds(s, strs, live) ==
  /\ mediaRecorder' = s
  /\ recState' = [recState EXCEPT ![s] = "recording"]
  /\ audioChunks' = <<>>
  /\ fullSessionChunks' = <<>>
  /\ headerChunk' = NULL
  /\ streams' = strs
  /\ liveStreams' = live
  /\ status' = "recording"
  /\ hasRecordedData' = FALSE
  /\ starts' = [starts EXCEPT ![s].pc = "done"]
  /\ produced' = <<>>
  /\ resized' = FALSE
  /\ wiped' = FALSE

\* The catch block of startRecording, then the catch block of toggleRecording.
StartFails(s, strs, ctx, live, open) ==
  /\ StopRecording(strs, ctx, live, open)
  /\ status' = "error"
  /\ starts' = [starts EXCEPT ![s].pc = "failed"]
  /\ UNCHANGED <<audioChunks, fullSessionChunks, headerChunk, hasRecordedData, histVars>>

\* getUserMedia resolves.
MicGranted(s) ==
  /\ starts[s].pc = "awaitMic"
  /\ LET mic == StreamOf(s, "mic")
     IN IF starts[s].mode = "mic"
        THEN /\ StartSucceeds(s, streams \cup {mic}, liveStreams \cup {mic})
             /\ UNCHANGED <<audioContext, openContexts>>
        ELSE /\ streams' = streams \cup {mic}
             /\ liveStreams' = liveStreams \cup {mic}
             /\ starts' = [starts EXCEPT ![s].pc = "awaitDisplay"]
             /\ UNCHANGED <<mediaRecorder, recState, audioChunks, fullSessionChunks,
                            headerChunk, audioContext, openContexts, status,
                            hasRecordedData, histVars>>
  /\ UNCHANGED <<maxBufferSeconds, usageStats, nextSeg, blobSize, audioMode, bufferDuration,
                 pendingTimers, analyses, triggers, cacheVars>>
  /\ Quiet

\* getUserMedia rejects.
MicDenied(s) ==
  /\ starts[s].pc = "awaitMic"
  /\ StartFails(s, streams, audioContext, liveStreams, openContexts)
  /\ UNCHANGED <<maxBufferSeconds, usageStats, nextSeg, blobSize, audioMode, bufferDuration,
                 pendingTimers, analyses, triggers, cacheVars>>
  /\ Quiet

\* getDisplayMedia resolves with a stream that has audio tracks or has none.
DisplayGranted(s, hasAudio) ==
  /\ starts[s].pc = "awaitDisplay"
  /\ LET disp == StreamOf(s, "display")
         strs == streams \cup {disp}
         mixed == starts[s].mode = "mixed"
         ctx == IF mixed THEN s ELSE audioContext
         open == IF mixed THEN openContexts \cup {s} ELSE openContexts
     IN IF hasAudio
        THEN /\ StartSucceeds(s, strs, liveStreams \cup {disp})
             /\ audioContext' = ctx
             /\ openContexts' = open
        ELSE StartFails(s, strs, ctx, liveStreams, open)
  /\ UNCHANGED <<maxBufferSeconds, usageStats, nextSeg, blobSize, audioMode, bufferDuration,
                 pendingTimers, analyses, triggers, cacheVars>>
  /\ Quiet

\* getDisplayMedia rejects.
DisplayDenied(s) ==
  /\ starts[s].pc = "awaitDisplay"
  /\ StartFails(s, streams, audioContext, liveStreams, openContexts)
  /\ UNCHANGED <<maxBufferSeconds, usageStats, nextSeg, blobSize, audioMode, bufferDuration,
                 pendingTimers, analyses, triggers, cacheVars>>
  /\ Quiet

\* ----------------------------------------------------- segment delivery

\* A running recorder's timeslice elapses: dataavailable with a non-empty
\* blob (an empty one changes nothing). At most maxSegs non-empty segments
\* are produced in a behaviour.
DataAvailable(r, size, maxSegs) ==
  /\ recState[r] = "recording"
  /\ size > 0
  /\ nextSeg <= maxSegs
  /\ OnDataAvailable(size)
  /\ UNCHANGED <<mediaRecorder, streams, audioContext, maxBufferSeconds, usageStats,
                 recState, liveStreams, openContexts, appVars, starts, analyses, triggers, cacheVars,
                 resized, wiped>>
  /\ Quiet

\* The task a stopped recorder queued: dataavailable with the data gathered
\* since the last timeslice (possibly none), after which it is inactive.
FinalDataAvailable(r, size, maxSegs) ==
  /\ recState[r] = "flushing"
  /\ size > 0 => nextSeg <= maxSegs
  /\ OnDataAvailable(size)
  /\ recState' = [recState EXCEPT ![r] = "inactive"]
  /\ UNCHANGED <<mediaRecorder, streams, audioContext, maxBufferSeconds, usageStats,
                 liveStreams, openContexts, appVars, starts, analyses, triggers, cacheVars,
                 resized, wiped>>
  /\ Quiet

\* ------------------------------------------------------ the context cache
FreeRefresh == {p \in RefreshIds : refreshes[p].pc = "unused"}

\* setModel(m): the cache handle and flags when it returns; it acts only
\* when m differs from the current model.
SetModelLeaves(m) ==
  IF currentModel # m
  THEN [name |-> NULL, active |-> FALSE, ready |-> FALSE]
  ELSE [name |-> cachedContentName, active |-> isCacheActive, ready |-> isCacheReady]

\* Mutant of TooSmallToCache: the comparison is one character short.
TooSmallToCacheOneShort(chars) == chars = 0 \/ chars < MIN_CACHING_CHARS - 1

\* updateContextCache: `!contextContent || contextContent.length <
\* MIN_CACHING_CHARS`, on the knowledge text.
TooSmallToCache(chars) == chars = 0 \/ chars < MIN_CACHING_CHARS

\* setModel(m), then updateContextCache(fullContext, systemInstruction) up to
\* its first await: the body of the effect that follows a change of the
\* selected model, of the knowledge items or of the system instruction.
\* A knowledge text that is too small clears the cache and returns;
\* otherwise caches.create is called with the model current at that moment.
ModelAndCacheEffect(m, chars, instr) ==
  LET after == SetModelLeaves(m)
      left == IF TooSmallToCache(chars)
              THEN [name |-> NULL, active |-> FALSE, ready |-> FALSE]
              ELSE after
  IN /\ currentModel' = m
     /\ cachedContentName' = left.name
     /\ isCacheActive' = left.active
     /\ isCacheReady' = left.ready
     /\ IF TooSmallToCache(chars)
        THEN UNCHANGED refreshes
        ELSE /\ FreeRefresh # {}
             /\ refreshes' = [refreshes EXCEPT ![FirstFree(FreeRefresh)] =
                                [pc |-> "creating", model |-> m]]
     /\ lastEffect' = [afterSetModel |-> [name |-> after.name, active |-> after.active],
                       context |-> chars, instruction |-> instr,
                       attempted |-> (refreshes' # refreshes),
                       left |-> left]

\* The model select.
SetSelectedModel(m) ==
  /\ m # selectedModel
  /\ selectedModel' = m
  /\ ModelAndCacheEffect(m, contextChars, instructionChars)
  /\ UNCHANGED <<svcVars, platVars, appVars, contextChars, instructionChars, starts, analyses, triggers, histVars>>
  /\ Quiet

\* Knowledge files are added or removed (the length may stay the same).
SetKnowledge(chars) ==
  /\ contextChars' = chars
  /\ ModelAndCacheEffect(selectedModel, chars, instructionChars)
  /\ UNCHANGED <<svcVars, platVars, appVars, selectedModel, instructionChars, starts, analyses, triggers, histVars>>
  /\ Quiet

\* The system instruction is edited or reset (the length may stay the same).
SetSystemInstruction(instr) ==
  /\ instructionChars' = instr
  /\ ModelAndCacheEffect(selectedModel, contextChars, instr)
  /\ UNCHANGED <<svcVars, platVars, appVars, selectedModel, contextChars, starts,
                 analyses, triggers, histVars>>
  /\ Quiet

\* caches.create resolves: the handle is stored and the cache is flagged active.
CacheCreated(p) ==
  /\ refreshes[p].pc = "creating"
  /\ cachedContentName' = p
  /\ isCacheActive' = TRUE
  /\ isCacheReady' = TRUE
  /\ refreshes' = [refreshes EXCEPT ![p].pc = "done"]
  /\ UNCHANGED <<svcVars, platVars, appVars, currentModel, selectedModel,
                 contextChars, instructionChars, lastEffect, starts, analyses, triggers, histVars>>
  /\ Quiet

\* Mutant of CacheCreateFails: the catch block leaves the cache as it is.
CacheCreateFailsKeepsCache(p) ==
  /\ refreshes[p].pc = "creating"
  /\ refreshes' = [refreshes EXCEPT ![p].pc = "failed"]
  /\ UNCHANGED <<svcVars, platVars, appVars, currentModel, cachedContentName,
                 isCacheActive, isCacheReady, selectedModel, contextChars,
                 instructionChars, lastEffect, starts, analyses, triggers, histVars>>
  /\ Quiet

\* caches.create rejects (rate limit or any other error): the catch block
\* clears the cache and returns.
CacheCreateFails(p) ==
  /\ refreshes[p].pc = "creating"
  /\ cachedContentName' = NULL
  /\ isCacheActive' = FALSE
  /\ isCacheReady' = FALSE
  /\ refreshes' = [refreshes EXCEPT ![p].pc = "failed"]
  /\ UNCHANGED <<svcVars, platVars, appVars, currentModel, selectedModel,
                 contextChars, instructionChars, lastEffect, starts, analyses, triggers, histVars>>
  /\ Quiet

\* ------------------------------------------------------------ usage meter
getRates(m) == PRICING_RATES_PER_1M(m)

\* Costs are counted in units of 1/(3 * 10^8) dollar, which keeps them whole:
\* seconds * 25 / 10^6 * rate dollars is seconds * 25 * 3 * (100 * rate) units.
addInputAudioCost(u, seconds, m) ==
  [u EXCEPT !.estimatedCost = @ + seconds * TOKENS_PER_SECOND_AUDIO
                                    * CHARS_PER_TOKEN_ESTIMATION * getRates(m).inputAudio,
            !.totalAudioSeconds = @ + seconds]

\* Mutant of addOutputTextCost: the cost of the text is taken off.
addOutputTextCostCredit(u, len, m) ==
  [u EXCEPT !.estimatedCost = @ - len * getRates(m).output]

\* len / 3 / 10^6 * rate dollars is len * (100 * rate) units.
addOutputTextCost(u, len, m) ==
  [u EXCEPT !.estimatedCost = @ + len * getRates(m).output]

\* ---------------------------------------------------------------- analysis
FreeAnalysis == {a \in AnalysisIds : analyses[a].pc = "unused"}

\* The analyses whose provider call has been issued and has not terminated.
InFlight == {a \in AnalysisIds : analyses[a].pc = "calling"}

\* analyzeAudioBufferStream: the audio of the request.
ChunksToProcess ==
  IF headerChunk # NULL THEN <<headerChunk>> \o audioChunks ELSE audioChunks

\* Mutant of NothingRecorded: the guard never fires.
NothingRecordedNever(q) == Len(q) < 0

\* The guard both generators open with: `chunks.length === 0`.
NothingRecorded(q) == Len(q) = 0

isRateLimitError(e) == e.rateLimit
isEntityTooLargeError(e) == e.tooLarge

\* The chunk the catch block of either generator yields for a rejection.
ErrorChunk(e) ==
  IF isRateLimitError(e) THEN "RateLimited"
  ELSE IF isEntityTooLargeError(e) THEN "PayloadTooLarge"
  ELSE "ProviderError"

\* The status the caller sets once its for-await loop ends.
StatusAfter(kind) == IF kind = "window" THEN "recording" ELSE "idle"

\* triggerAnalysis up to the first await of analyzeAudioBufferStream: the
\* banner is appended to the transcript and the generator starts. With an
\* empty rolling buffer it yields its message and returns at once, and the
\* handler sets the status back.
TriggerAnalysis ==
  /\ status = "recording"
  /\ FreeAnalysis # {}
  /\ triggers < MaxTriggers
  /\ triggers' = triggers + 1
  /\ lastError' = NoError
  /\ LET a == FirstFree(FreeAnalysis)
     IN IF NothingRecorded(audioChunks)
        THEN /\ lastChunk' = "EmptyBuffer"
             /\ status' = "recording"
             /\ UNCHANGED analyses
        ELSE /\ analyses' = [analyses EXCEPT ![a] =
                  [IdleAnalysis EXCEPT !.pc = "encoding", !.kind = "window",
                                       !.body = ChunksToProcess,
                                       !.rolling = Len(audioChunks)]]
             /\ status' = "analyzing"
             /\ lastChunk' = "Banner"
  /\ UNCHANGED <<svcVars, platVars, hasRecordedData, audioMode, bufferDuration,
                 pendingTimers, cacheVars, starts, histVars>>

\* analyzeAudioBufferStream from the end of blobToBase64 to the await of
\* generateContent: the counter, the input charge, the choice between the
\* cache reference and the inline instruction, the provider call.
WindowCharged(u, n, m) ==
  addInputAudioCost([u EXCEPT !.analyzedCount = @ + 1], n, m)

\* Mutant of WindowUsageAtCall: the call is issued before the charges.
WindowUsageAtCallUncharged(u, n, m) == u

\* The usage counters the provider call of a window analysis is issued under:
\* the charges come first in the code.
WindowUsageAtCall(u, n, m) == WindowCharged(u, n, m)

\* Whether counters seen hold one more analysis and n more seconds than before.
HoldsCharge(seen, before, n) ==
  /\ seen.analyzedCount = before.analyzedCount + 1
  /\ seen.totalAudioSeconds = before.totalAudioSeconds + n

\* analyzeAudioBufferStream: `this.isCacheActive && this.cachedContentName`.
UseCache(active, name) == active /\ name # NULL

\* Mutant of SentAudio: the request reads the buffers when it is issued.
SentAudioLive(snapshot) == ChunksToProcess

\* The inlineData of the request: the encoding of the blob built before
\* the await of blobToBase64, whatever the buffers hold by then.
SentAudio(snapshot) == snapshot

WindowEncoded(a) ==
  /\ analyses[a].pc = "encoding"
  /\ analyses[a].kind = "window"
  /\ LET useCache == UseCache(isCacheActive, cachedContentName)
     IN analyses' = [analyses EXCEPT ![a] =
          [@ EXCEPT !.pc = "calling", !.model = currentModel,
                    !.body = SentAudio(@),
                    !.cached = IF useCache THEN cachedContentName ELSE NULL,
                    !.inline = ~useCache,
                    !.chargedAtCall =
                       HoldsCharge(WindowUsageAtCall(usageStats, Len(audioChunks),
                                                     currentModel),
                                   usageStats, Len(audioChunks))]]
  /\ usageStats' = WindowCharged(usageStats, Len(audioChunks), currentModel)
  /\ UNCHANGED <<captureVars, bufferVars, maxBufferSeconds, platVars, appVars,
                 cacheVars, starts, triggers, histVars>>
  /\ Quiet

\* blobToBase64 rejects: the catch block yields "[Error] ..." and the
\* generator returns.
EncodeFails(a) ==
  /\ analyses[a].pc = "encoding"
  /\ analyses' = [analyses EXCEPT ![a] = IdleAnalysis]
  /\ lastError' = NoMatch
  /\ lastChunk' = ErrorChunk(NoMatch)
  /\ status' = StatusAfter(analyses[a].kind)
  /\ UNCHANGED <<svcVars, platVars, hasRecordedData, audioMode, bufferDuration,
                 pendingTimers, cacheVars, starts, triggers, histVars>>

\* generateContent resolves with a text of the given length; an empty text
\* is not yielded.
WindowResponds(a, len) ==
  /\ analyses[a].pc = "calling"
  /\ analyses[a].kind = "window"
  /\ usageStats' = IF len > 0 THEN addOutputTextCost(usageStats, len, currentModel)
                   ELSE usageStats
  /\ lastChunk' = IF len > 0 THEN "Data" ELSE "none"
  /\ lastError' = NoError
  /\ analyses' = [analyses EXCEPT ![a] = IdleAnalysis]
  /\ status' = "recording"
  /\ UNCHANGED <<captureVars, bufferVars, maxBufferSeconds, platVars,
                 hasRecordedData, audioMode, bufferDuration, pendingTimers,
                 cacheVars, starts, triggers, histVars>>

\* Mutant of CallFails: the generator prepares the request again.
CallFailsRetries(a, e) ==
  /\ a \in InFlight
  /\ analyses' = [analyses EXCEPT ![a].pc = "encoding"]
  /\ lastError' = e
  /\ lastChunk' = "none"
  /\ UNCHANGED <<svcVars, platVars, appVars, cacheVars, starts, triggers, histVars>>

\* The provider call, or the stream it opened, fails: the catch block yields
\* one error chunk and the generator returns.
CallFails(a, e) ==
  /\ a \in InFlight
  /\ analyses' = [analyses EXCEPT ![a] = IdleAnalysis]
  /\ lastError' = e
  /\ lastChunk' = ErrorChunk(e)
  /\ status' = StatusAfter(analyses[a].kind)
  /\ UNCHANGED <<svcVars, platVars, hasRecordedData, audioMode, bufferDuration,
                 pendingTimers, cacheVars, starts, triggers, histVars>>

\* getFullAudioBlob: the size of the blob made of the segments q.
RECURSIVE BlobBytes(_)
BlobBytes(q) == IF q = <<>> THEN 0 ELSE blobSize[Head(q)] + BlobBytes(Tail(q))

\* Mutant of TooLargeToSend: an archive at the ceiling is rejected too.
TooLargeToSendAtCeiling(bytes) == bytes >= MAX_AUDIO_BLOB_SIZE

\* generateFullTranscriptStream: the size check before the request.
TooLargeToSend(bytes) == bytes > MAX_AUDIO_BLOB_SIZE

\* handleGenerateFullTranscript (its button shows while idle with recorded
\* data) up to the first await of generateFullTranscriptStream that leaves
\* the task: the empty check, getFullAudioBlob and the size check run in
\* the handler's own task.
HandleGenerateFullTranscript ==
  /\ hasRecordedData
  /\ status = "idle"
  /\ FreeAnalysis # {}
  /\ triggers < MaxTriggers
  /\ triggers' = triggers + 1
  /\ lastError' = NoError
  /\ LET a == FirstFree(FreeAnalysis)
     IN IF NothingRecorded(fullSessionChunks)
        THEN /\ lastChunk' = "NoSession"
             /\ status' = "idle"
             /\ UNCHANGED analyses
        ELSE IF TooLargeToSend(BlobBytes(fullSessionChunks))
        THEN /\ lastChunk' = "PayloadTooLarge"
             /\ status' = "idle"
             /\ UNCHANGED analyses
        ELSE /\ analyses' = [analyses EXCEPT ![a] =
                  [IdleAnalysis EXCEPT !.pc = "encoding", !.kind = "full",
                                       !.body = fullSessionChunks]]
             /\ status' = "analyzing"
             /\ lastChunk' = "Banner"
  /\ UNCHANGED <<svcVars, platVars, hasRecordedData, audioMode, bufferDuration,
                 pendingTimers, cacheVars, starts, histVars>>

\* generateFullTranscriptStream: the charges made between blobToBase64 and
\* the provider call, for an archive of n segments.
FullCharged(u, n, m) == addInputAudioCost(u, n, m)

\* generateFullTranscriptStream from the end of blobToBase64 to the await of
\* generateContentStream; the request's config holds the temperature only.
FullEncoded(a) ==
  /\ analyses[a].pc = "encoding"
  /\ analyses[a].kind = "full"
  /\ usageStats' = FullCharged(usageStats, Len(fullSessionChunks), currentModel)
  /\ analyses' = [analyses EXCEPT ![a] =
        [@ EXCEPT !.pc = "calling", !.model = currentModel,
                  !.cached = NULL, !.inline = FALSE,
                  !.chargedAtCall =
                     HoldsCharge(FullCharged(usageStats, Len(fullSessionChunks),
                                             currentModel),
                                 usageStats, Len(fullSessionChunks))]]
  /\ UNCHANGED <<captureVars, bufferVars, maxBufferSeconds, platVars, appVars,
                 cacheVars, starts, triggers, histVars>>
  /\ Quiet

\* The response stream delivers a chunk with a text of the given length;
\* the loop skips a chunk without text.
FullChunk(a, len) ==
  /\ a \in InFlight
  /\ analyses[a].kind = "full"
  /\ analyses[a].chunks < MaxChunks
  /\ usageStats' = IF len > 0 THEN addOutputTextCost(usageStats, len, currentModel)
                   ELSE usageStats
  /\ lastChunk' = IF len > 0 THEN "Data" ELSE "none"
  /\ lastError' = NoError
  /\ analyses' = [analyses EXCEPT ![a].chunks = IF len > 0 THEN @ + 1 ELSE @]
  /\ UNCHANGED <<captureVars, bufferVars, maxBufferSeconds, platVars, appVars,
                 cacheVars, starts, triggers, histVars>>

\* The response stream ends.
FullStreamEnds(a) ==
  /\ a \in InFlight
  /\ analyses[a].kind = "full"
  /\ analyses' = [analyses EXCEPT ![a] = IdleAnalysis]
  /\ status' = "idle"
  /\ UNCHANGED <<svcVars, platVars, hasRecordedData, audioMode, bufferDuration,
                 pendingTimers, cacheVars, starts, triggers, histVars>>
  /\ Quiet

\* ------------------------------------------------------ App: the controls

\* The source-mode buttons, enabled only while idle.
SetAudioMode(m) ==
  /\ status = "idle"
  /\ m # audioMode
  /\ audioMode' = m
  /\ UNCHANGED <<svcVars, platVars, status, hasRecordedData, bufferDuration,
                 pendingTimers, starts, analyses, triggers, cacheVars, histVars>>
  /\ Quiet

\* The buffer select and its effect: geminiService.setBufferDuration(w).
SetBufferDuration(w) ==
  /\ w # bufferDuration
  /\ bufferDuration' = w
  /\ maxBufferSeconds' = w
  /\ audioChunks' = Trimmed(audioChunks, w)
  /\ resized' = TRUE
  /\ UNCHANGED <<mediaRecorder, fullSessionChunks, headerChunk, streams, audioContext,
                 usageStats, platVars, status, hasRecordedData, audioMode,
                 pendingTimers, starts, analyses, triggers, cacheVars, produced, wiped>>
  /\ Quiet

\* Mutant of ToggleRecordingStop: the stop empties the rolling buffer.
ToggleRecordingStopResets ==
  /\ status \in {"recording", "analyzing"}
  /\ StopRecording(streams, audioContext, liveStreams, openContexts)
  /\ status' = "idle"
  /\ pendingTimers' = pendingTimers + 1
  /\ audioChunks' = <<>>
  /\ UNCHANGED <<fullSessionChunks, headerChunk, maxBufferSeconds,
                 usageStats, nextSeg, blobSize, hasRecordedData, audioMode, bufferDuration,
                 starts, analyses, triggers, cacheVars, histVars>>
  /\ Quiet

\* toggleRecording, stop branch.
ToggleRecordingStop ==
  /\ status \in {"recording", "analyzing"}
  /\ StopRecording(streams, audioContext, liveStreams, openContexts)
  /\ status' = "idle"
  /\ pendingTimers' = pendingTimers + 1
  /\ UNCHANGED <<audioChunks, fullSessionChunks, headerChunk, maxBufferSeconds,
                 usageStats, nextSeg, blobSize, hasRecordedData, audioMode, bufferDuration,
                 starts, analyses, triggers, cacheVars, histVars>>
  /\ Quiet

\* The 500 ms timer of the stop branch.
HasDataTimer ==
  /\ pendingTimers > 0
  /\ pendingTimers' = pendingTimers - 1
  /\ hasRecordedData' = IF fullSessionChunks # <<>> THEN TRUE ELSE hasRecordedData
  /\ UNCHANGED <<svcVars, platVars, status, audioMode, bufferDuration, starts, analyses, triggers, cacheVars, histVars>>
  /\ Quiet

\* handleClearAllData after the user confirms: clearAllSessionData(), the
\* state resets that follow it, and the effect the reset knowledge items and
\* system instruction trigger.
HandleClearAllData ==
  /\ StopRecording(streams, audioContext, liveStreams, openContexts)
  /\ audioChunks' = <<>>
  /\ fullSessionChunks' = <<>>
  /\ headerChunk' = NULL
  /\ usageStats' = ZeroUsage
  /\ hasRecordedData' = FALSE
  /\ status' = "idle"
  /\ contextChars' = DefaultChars
  /\ instructionChars' = DefaultInstructionChars
  /\ ModelAndCacheEffect(selectedModel, DefaultChars, DefaultInstructionChars)
  /\ Quiet
  /\ produced' = <<>>
  /\ resized' = FALSE
  /\ wiped' = TRUE
  /\ UNCHANGED <<maxBufferSeconds, nextSeg, blobSize, audioMode, bufferDuration, pendingTimers,
                 selectedModel, starts, analyses, triggers>>

\* ---------------------------------------------------------- specifications

\* The buffers: one source mode, segment delivery, resize, stop and wipe.
BufferStep ==
  \/ ToggleRecordingStart(MaxStarts)
  \/ \E s \in StartIds : MicGranted(s)
  \/ \E s \in StartIds : MicDenied(s)
  \/ \E r \in StartIds : DataAvailable(r, SmallBlob, MaxSegs)
  \/ \E r \in StartIds, size \in {0, SmallBlob} : FinalDataAvailable(r, size, MaxSegs)
  \/ \E w \in WindowSizes : SetBufferDuration(w)
  \/ ToggleRecordingStop
  \/ HandleClearAllData

SpecBuffer == Init /\ [][BufferStep]_vars

\* Capture: every source mode, segment delivery, stop and wipe.
CaptureStep ==
  \/ ToggleRecordingStart(MaxStarts)
  \/ \E s \in StartIds : MicGranted(s)
  \/ \E s \in StartIds : MicDenied(s)
  \/ \E s \in StartIds, hasAudio \in BOOLEAN : DisplayGranted(s, hasAudio)
  \/ \E s \in StartIds : DisplayDenied(s)
  \/ \E r \in StartIds : DataAvailable(r, SmallBlob, MaxSessionSegs)
  \/ \E r \in StartIds, size \in {0, SmallBlob} :
        FinalDataAvailable(r, size, MaxSessionSegs)
  \/ \E m \in Modes : SetAudioMode(m)
  \/ ToggleRecordingStop
  \/ HasDataTimer
  \/ HandleClearAllData

SpecCapture == Init /\ [][CaptureStep]_vars

\* A session on the microphone with window and full-session analyses.
SessionStep ==
  \/ ToggleRecordingStart(MaxPendingStarts)
  \/ \E s \in StartIds : MicGranted(s)
  \/ \E s \in StartIds : MicDenied(s)
  \/ \E r \in StartIds : DataAvailable(r, SmallBlob, MaxSessionSegs)
  \/ \E r \in StartIds, size \in {0, SmallBlob} : FinalDataAvailable(r, size, MaxSessionSegs)
  \/ ToggleRecordingStop
  \/ HasDataTimer
  \/ HandleClearAllData
  \/ TriggerAnalysis
  \/ \E a \in AnalysisIds : WindowEncoded(a)
  \/ \E a \in AnalysisIds : EncodeFails(a)
  \/ \E a \in AnalysisIds, len \in ChunkLens : WindowResponds(a, len)
  \/ \E a \in AnalysisIds, e \in Errors : CallFails(a, e)
  \/ HandleGenerateFullTranscript
  \/ \E a \in AnalysisIds : FullEncoded(a)
  \/ \E a \in AnalysisIds, len \in ChunkLens : FullChunk(a, len)
  \/ \E a \in AnalysisIds : FullStreamEnds(a)

Spec == Init /\ [][SessionStep]_vars

\* Few sessions with window and full-session analyses: what each charges
\* and when.
UsageStep ==
  \/ /\ Cardinality(StartIds \ FreeStart) < MaxSessions
     /\ ToggleRecordingStart(MaxSessions)
  \/ \E s \in StartIds : MicGranted(s)
  \/ \E r \in StartIds : DataAvailable(r, SmallBlob, MaxSessionSegs)
  \/ \E r \in StartIds, size \in {0, SmallBlob} : FinalDataAvailable(r, size, MaxSessionSegs)
  \/ ToggleRecordingStop
  \/ HasDataTimer
  \/ HandleClearAllData
  \/ triggers < MaxRequests /\ TriggerAnalysis
  \/ \E a \in AnalysisIds : WindowEncoded(a)
  \/ \E a \in AnalysisIds : EncodeFails(a)
  \/ \E a \in AnalysisIds, len \in ChunkLens : WindowResponds(a, len)
  \/ \E a \in AnalysisIds, e \in Errors : CallFails(a, e)
  \/ triggers < MaxRequests /\ HandleGenerateFullTranscript
  \/ \E a \in AnalysisIds : FullEncoded(a)
  \/ \E a \in AnalysisIds : FullStreamEnds(a)

SpecUsage == Init /\ [][UsageStep]_vars

\* The full-session transcript over archives of every size.
TranscriptStep ==
  \/ /\ Cardinality(StartIds \ FreeStart) < MaxSessions
     /\ ToggleRecordingStart(MaxSessions)
  \/ \E s \in StartIds : MicGranted(s)
  \/ \E r \in StartIds, size \in BlobSizes : DataAvailable(r, size, MaxSessionSegs)
  \/ \E r \in StartIds, size \in {0} \cup BlobSizes :
        FinalDataAvailable(r, size, MaxSessionSegs)
  \/ ToggleRecordingStop
  \/ HasDataTimer
  \/ triggers < MaxRequests /\ HandleGenerateFullTranscript
  \/ \E a \in AnalysisIds : FullEncoded(a)
  \/ \E a \in AnalysisIds : FullStreamEnds(a)
  \/ \E a \in AnalysisIds, e \in Errors : CallFails(a, e)

SpecTranscript == Init /\ [][TranscriptStep]_vars

\* Window analyses while the model, the knowledge and the cache change.
ContextStep ==
  \/ ToggleRecordingStart(MaxPendingStarts)
  \/ \E s \in StartIds : MicGranted(s)
  \/ \E r \in StartIds : DataAvailable(r, SmallBlob, MaxContextSegs)
  \/ TriggerAnalysis
  \/ \E a \in AnalysisIds : WindowEncoded(a)
  \/ \E a \in AnalysisIds, len \in ChunkLens : WindowResponds(a, len)
  \/ \E a \in AnalysisIds, e \in Errors : CallFails(a, e)
  \/ \E m \in Models : SetSelectedModel(m)
  \/ \E chars \in SmallOrLarge : SetKnowledge(chars)
  \/ \E p \in RefreshIds : CacheCreated(p)
  \/ \E p \in RefreshIds : CacheCreateFails(p)

SpecContext == Init /\ [][ContextStep]_vars

\* Window analyses while the knowledge changes and cache-creation calls
\* succeed or fail.
FallbackStep ==
  \/ /\ Cardinality(StartIds \ FreeStart) < MaxSessions
     /\ ToggleRecordingStart(MaxSessions)
  \/ \E s \in StartIds : MicGranted(s)
  \/ \E r \in StartIds : DataAvailable(r, SmallBlob, MaxContextSegs)
  \/ triggers < MaxRequests /\ TriggerAnalysis
  \/ \E a \in AnalysisIds : WindowEncoded(a)
  \/ \E a \in AnalysisIds, len \in ChunkLens : WindowResponds(a, len)
  \/ \E a \in AnalysisIds, e \in Errors : CallFails(a, e)
  \/ \E chars \in SmallOrLarge : SetKnowledge(chars)
  \/ \E p \in RefreshIds : CacheCreated(p)
  \/ \E p \in RefreshIds : CacheCreateFails(p)

SpecFallback == Init /\ [][FallbackStep]_vars

\* Window analyses interleaved with segment delivery, resizes, stops and
\* wipes.
InterleaveStep ==
  \/ /\ Cardinality(StartIds \ FreeStart) < MaxSessions
     /\ ToggleRecordingStart(MaxSessions)
  \/ \E s \in StartIds : MicGranted(s)
  \/ \E r \in StartIds : DataAvailable(r, SmallBlob, MaxSessionSegs)
  \/ \E r \in StartIds, size \in {0, SmallBlob} : FinalDataAvailable(r, size, MaxSessionSegs)
  \/ \E w \in OfferedWindows : SetBufferDuration(w)
  \/ ToggleRecordingStop
  \/ HandleClearAllData
  \/ triggers < MaxRequests /\ TriggerAnalysis
  \/ \E a \in AnalysisIds : WindowEncoded(a)
  \/ \E a \in AnalysisIds : EncodeFails(a)
  \/ \E a \in AnalysisIds, len \in ChunkLens : WindowResponds(a, len)
  \/ \E a \in AnalysisIds, e \in Errors : CallFails(a, e)

\* The promise an analysis awaits is settled, one way or the other, and the
\* generator runs on to its next await or to its end.
Settles(a) ==
  \/ WindowEncoded(a)
  \/ EncodeFails(a)
  \/ \E len \in ChunkLens : WindowResponds(a, len)
  \/ \E e \in Errors : CallFails(a, e)

SpecInterleave == Init /\ [][InterleaveStep]_vars

\* Sessions that are stopped, or whose start fails, with segments buffered,
\* analyses charged and a cache created.
StopStep ==
  \/ /\ Cardinality(StartIds \ FreeStart) < MaxSessions
     /\ ToggleRecordingStart(MaxSessions)
  \/ \E s \in StartIds : MicGranted(s)
  \/ \E s \in StartIds : MicDenied(s)
  \/ \E r \in StartIds : DataAvailable(r, SmallBlob, MaxContextSegs)
  \/ \E r \in StartIds, size \in {0, SmallBlob} : FinalDataAvailable(r, size, MaxContextSegs)
  \/ ToggleRecordingStop
  \/ triggers < MaxRequests /\ TriggerAnalysis
  \/ \E a \in AnalysisIds : WindowEncoded(a)
  \/ \E a \in AnalysisIds, len \in ChunkLens : WindowResponds(a, len)
  \/ \E chars \in SmallOrLarge : SetKnowledge(chars)
  \/ \E p \in RefreshIds : CacheCreated(p)

SpecStop == Init /\ [][StopStep]_vars

\* Every kind of step the usage counters live through: start, segment
\* delivery, resize, stop, wipe, model change with the cache refresh that
\* follows it, analysis dispatch and output.
CountersStep ==
  \/ /\ Cardinality(StartIds \ FreeStart) < MaxSessions
     /\ ToggleRecordingStart(MaxSessions)
  \/ \E s \in StartIds : MicGranted(s)
  \/ \E r \in StartIds : DataAvailable(r, SmallBlob, MaxContextSegs)
  \/ \E w \in OfferedWindows : SetBufferDuration(w)
  \/ ToggleRecordingStop
  \/ HandleClearAllData
  \/ \E m \in Models : SetSelectedModel(m)
  \/ triggers < MaxRequests /\ TriggerAnalysis
  \/ \E a \in AnalysisIds : WindowEncoded(a)
  \/ \E a \in AnalysisIds, len \in ChunkLens : WindowResponds(a, len)

SpecCounters == Init /\ [][CountersStep]_vars

\* Capture, stop and wipe, knowledge changes with the cache refreshes they
\* start, and window analyses with their responses and failures.
CallsStep ==
  \/ /\ Cardinality(StartIds \ FreeStart) < MaxSessions
     /\ ToggleRecordingStart(MaxSessions)
  \/ \E s \in StartIds : MicGranted(s)
  \/ \E r \in StartIds : DataAvailable(r, SmallBlob, MaxContextSegs)
  \/ ToggleRecordingStop
  \/ HandleClearAllData
  \/ \E chars \in SmallOrLarge : SetKnowledge(chars)
  \/ \E p \in RefreshIds : CacheCreated(p)
  \/ triggers < MaxRequests /\ TriggerAnalysis
  \/ \E a \in AnalysisIds : WindowEncoded(a)
  \/ \E a \in AnalysisIds, len \in ChunkLens : WindowResponds(a, len)
  \/ \E a \in AnalysisIds : CallFails(a, NoMatch)

SpecCalls == Init /\ [][CallsStep]_vars

\* The context cache: model and knowledge changes and the completion of the
\* cache-creation calls they start.
CacheStep ==
  \/ \E m \in Models : SetSelectedModel(m)
  \/ \E chars \in ContextChars : SetKnowledge(chars)
  \/ \E instr \in InstructionChars : SetSystemInstruction(instr)
  \/ \E p \in RefreshIds : CacheCreated(p)
  \/ \E p \in RefreshIds : CacheCreateFails(p)

SpecCache == Init /\ [][CacheStep]_vars

\* ------------------------------------------------------------------ claims

Recording == {r \in StartIds : recState[r] = "recording"}

\* C1: at most one analysis (window or full-session) is in flight at any
\* time: no reachable state has two dispatched analysis requests of which
\* neither has terminated.
C1_AtMostOneInFlight == Cardinality(InFlight) <= 1

\* C2: whenever the context cache is flagged active, the stored handle was
\* returned by a cache-creation call issued for the currently selected model.
C2_ActiveCacheMatchesModel ==
  isCacheActive =>
    /\ cachedContentName # NULL
    /\ refreshes[cachedContentName].model = currentModel
    /\ currentModel = selectedModel

\* C3: the rolling buffer never holds more segments than the window size
\* last set, right after setBufferDuration and after every later push.
C3_WindowBound == Len(audioChunks) <= maxBufferSeconds

\* C3 witness: a resize has trimmed a buffer that held more than the new
\* window, and the buffer is full.
C3_Witness ==
  /\ resized
  /\ maxBufferSeconds >= 1
  /\ Len(audioChunks) = maxBufferSeconds
  /\ Len(produced) > maxBufferSeconds

\* C4: with the window W unchanged since the session's buffers were reset,
\* after k pushes the rolling buffer holds the last min(k, W) pushed
\* segments in their original order; for k > W, exactly the last W.
C4_KeepsLastW == ~resized => audioChunks = LastN(produced, maxBufferSeconds)

\* C4 witness: more segments pushed than a window of at least two holds.
C4_Witness ==
  /\ ~resized
  /\ maxBufferSeconds >= 2
  /\ Len(produced) > maxBufferSeconds
  /\ Len(audioChunks) = maxBufferSeconds

\* C5: once a segment has been produced the header is the first segment
\* produced since the buffers were reset, which is segment 0 of the archive,
\* whatever was evicted or resized; it is absent exactly when the archive
\* is empty.
C5_HeaderIsFirst ==
  /\ (headerChunk = NULL) <=> (fullSessionChunks = <<>>)
  /\ produced # <<>> => headerChunk = produced[1]
  /\ fullSessionChunks # <<>> => headerChunk = fullSessionChunks[1]

\* C5 witness: after a resize, the header segment has left the rolling buffer.
C5_Witness ==
  /\ headerChunk # NULL
  /\ resized
  /\ Len(produced) >= 2
  /\ \A i \in 1..Len(audioChunks) : audioChunks[i] # headerChunk

\* C6: the archive holds exactly the segments produced since the buffers
\* were reset (by a start or a wipe), in production order, whatever the
\* window is and whatever the rolling buffer evicted.
C6_ArchiveIsProduced == fullSessionChunks = produced

\* C6 witness: three segments archived while the rolling buffer, resized,
\* holds fewer.
C6_Witness ==
  /\ Len(fullSessionChunks) >= 3
  /\ resized
  /\ Len(audioChunks) < Len(fullSessionChunks)

\* C7: at most one capture session is open: never two recorders running,
\* never a live acquired stream the service no longer holds (which no later
\* stop releases).
C7_OneSessionNoLeak ==
  /\ Cardinality(Recording) <= 1
  /\ liveStreams \subseteq streams

\* C8: after a wipe the rolling buffer, the archive and the header stay
\* empty until a start succeeds.
C8_WipedStaysEmpty ==
  wiped => /\ audioChunks = <<>>
           /\ fullSessionChunks = <<>>
           /\ headerChunk = NULL

\* C9: a window analysis that is dispatched increments analyzedCount by
\* exactly 1 and charges the rolling buffer's length as input seconds, both
\* before the provider call is issued; the end of the call, in data or in
\* error, changes neither counter; analyzedCount changes in no other step
\* but a wipe.
C9_ChargedOnceBeforeCall ==
  [][ /\ \A a \in AnalysisIds :
           /\ (analyses[a].kind = "window" /\ analyses[a].pc = "encoding"
                 /\ analyses'[a].pc = "calling")
              => /\ analyses'[a].chargedAtCall
                 /\ usageStats'.analyzedCount = usageStats.analyzedCount + 1
                 /\ usageStats'.totalAudioSeconds =
                      usageStats.totalAudioSeconds + Len(audioChunks)
           /\ (analyses[a].kind = "window" /\ analyses[a].pc = "calling"
                 /\ analyses'[a].pc # "calling")
              => /\ usageStats'.analyzedCount = usageStats.analyzedCount
                 /\ usageStats'.totalAudioSeconds = usageStats.totalAudioSeconds
      /\ usageStats'.analyzedCount # usageStats.analyzedCount
           => \/ wiped' /\ usageStats' = ZeroUsage
              \/ Cardinality({a \in AnalysisIds :
                    /\ analyses[a].kind = "window"
                    /\ analyses[a].pc = "encoding"
                    /\ analyses'[a].pc = "calling"}) = 1
    ]_vars

\* C9 witness: a window analysis has ended in a rate-limit error chunk with
\* its charges in the counters.
C9_Witness ==
  /\ lastChunk = "RateLimited"
  /\ status = "recording"
  /\ usageStats.analyzedCount >= 1
  /\ usageStats.totalAudioSeconds >= 1

\* C10: a window analysis triggered on an empty rolling buffer yields the
\* empty-buffer message, starts no request, and leaves analyzedCount,
\* totalAudioSeconds and estimatedCost unchanged.
C10_EmptyBufferNoCharge ==
  [][ (status = "recording" /\ triggers' = triggers + 1 /\ audioChunks = <<>>)
        => /\ lastChunk' = "EmptyBuffer"
           /\ usageStats' = usageStats
           /\ analyses' = analyses
           /\ status' = "recording"
    ]_vars

\* C10 witness: the empty-buffer message has just been yielded while
\* capture is active.
C10_Witness ==
  /\ lastChunk = "EmptyBuffer"
  /\ audioChunks = <<>>
  /\ mediaRecorder # NULL

\* C11: a provider failure of an analysis, window or full-session, is
\* delivered as one error chunk after which the generator has returned; the
\* chunk is RateLimited for a rejection that matches the rate-limit
\* patterns, PayloadTooLarge for one that matches the too-large patterns
\* only, ProviderError otherwise; in the rate-limited case the counters
\* held the analysis and its input seconds when the call was issued.
C11_TerminalErrorChunk ==
  [][ \A a \in AnalysisIds :
        (analyses[a].pc = "calling" /\ analyses'[a].pc # "calling"
           /\ lastError' # NoError)
        => /\ analyses'[a].pc = "unused"
           /\ lastChunk' \in ProviderErrors
           /\ lastError'.rateLimit => lastChunk' = "RateLimited"
           /\ (~lastError'.rateLimit /\ lastError'.tooLarge)
                => lastChunk' = "PayloadTooLarge"
           /\ (~lastError'.rateLimit /\ ~lastError'.tooLarge)
                => lastChunk' = "ProviderError"
           /\ lastChunk' = "RateLimited" => analyses[a].chargedAtCall
    ]_vars

\* C14: a full-session request that is dispatched increments analyzedCount
\* by exactly 1 and charges the archive's segment count as input seconds,
\* both before the provider call is issued.
C14_FullChargedLikeWindow ==
  [][ \A a \in AnalysisIds :
        (analyses[a].kind = "full" /\ analyses[a].pc = "encoding"
           /\ analyses'[a].pc = "calling")
        => /\ analyses'[a].chargedAtCall
           /\ usageStats'.analyzedCount = usageStats.analyzedCount + 1
           /\ usageStats'.totalAudioSeconds =
                usageStats.totalAudioSeconds + Len(fullSessionChunks)
    ]_vars

\* The service holds a recorder that is recording.
CaptureActive == mediaRecorder # NULL /\ recState[mediaRecorder] = "recording"

\* C12: when a provider failure ends an analysis while capture is active,
\* capture is still active afterwards, the buffers and the header are as
\* before, and the status is RECORDING again.
C12_FailureKeepsSession ==
  [][ (/\ CaptureActive
       /\ lastError' # NoError
       /\ \E a \in AnalysisIds :
             analyses[a].pc = "calling" /\ analyses'[a].pc # "calling")
      => /\ CaptureActive'
         /\ bufferVars' = bufferVars
         /\ status' = "recording"
    ]_vars

\* C13: a full-session analysis is rejected locally, with the too-large
\* message, exactly when the archive's byte size exceeds the ceiling; a
\* rejected one starts no request and changes no usage counter.
C13_CeilingRejectsLocally ==
  [][ (/\ status = "idle" /\ hasRecordedData
       /\ triggers' = triggers + 1
       /\ fullSessionChunks # <<>>)
      => IF BlobBytes(fullSessionChunks) > MAX_AUDIO_BLOB_SIZE
         THEN /\ lastChunk' = "PayloadTooLarge"
              /\ lastError' = NoError
              /\ analyses' = analyses
              /\ usageStats' = usageStats
         ELSE /\ lastChunk' = "Banner"
              /\ \E a \in AnalysisIds :
                    /\ analyses[a].pc = "unused"
                    /\ analyses'[a].pc = "encoding"
                    /\ analyses'[a].kind = "full"
    ]_vars

\* C13 witness: an archive one byte over the ceiling has just been rejected
\* with the usage counters still at zero.
C13_Witness ==
  /\ lastChunk = "PayloadTooLarge"
  /\ lastError = NoError
  /\ BlobBytes(fullSessionChunks) = MAX_AUDIO_BLOB_SIZE + 1
  /\ usageStats = ZeroUsage
  /\ InFlight = {}

\* C15: whenever setModel has returned, for the model already selected as
\* for another, the cache flag is false and the handle is cleared.
C15_SetModelInvalidates ==
  /\ lastEffect.afterSetModel.active = FALSE
  /\ lastEffect.afterSetModel.name = NULL

\* C16: updateContextCache called with a knowledge text shorter than
\* MIN_CACHING_CHARS calls caches.create not at all and returns with the
\* handle cleared, the flag false and false delivered to the listener.
C16_SmallContextNoCache ==
  lastEffect.context < MIN_CACHING_CHARS
    => /\ ~lastEffect.attempted
       /\ lastEffect.left.name = NULL
       /\ lastEffect.left.active = FALSE
       /\ lastEffect.left.ready = FALSE

\* C16 witness: a cache had been created, and the last refresh, called with
\* one character less than the minimum, has cleared it.
C16_Witness ==
  /\ lastEffect.context = MIN_CACHING_CHARS - 1
  /\ \E p \in RefreshIds : refreshes[p].pc = "done"
  /\ \A p \in RefreshIds : refreshes[p].pc # "creating"
  /\ ~isCacheActive /\ cachedContentName = NULL /\ ~isCacheReady

\* C17: updateContextCache calls caches.create exactly when the length of
\* the merged content (system instruction plus knowledge text) reaches
\* MIN_CACHING_CHARS.
C17_MergedSizeDecides ==
  lastEffect.attempted
    <=> lastEffect.instruction + lastEffect.context >= MIN_CACHING_CHARS

\* C18: a cache-creation call that fails changes nothing the user sees but
\* the cache state: the handle is cleared, the flag is false, false is
\* delivered to the listener, the status stays and nothing is appended to
\* the transcript; and a window analysis dispatched while the cache is not
\* active carries the inline instruction and no cache reference.
C18_FailedCacheFallsBack ==
  [][ /\ \A p \in RefreshIds :
           (refreshes[p].pc = "creating" /\ refreshes'[p].pc = "failed")
           => /\ cachedContentName' = NULL
              /\ ~isCacheActive'
              /\ ~isCacheReady'
              /\ status' = status
              /\ lastChunk' = "none" /\ lastError' = NoError
      /\ \A a \in AnalysisIds :
           (/\ analyses[a].kind = "window" /\ analyses[a].pc = "encoding"
            /\ analyses'[a].pc = "calling" /\ ~isCacheActive)
           => analyses'[a].inline /\ analyses'[a].cached = NULL
    ]_vars

\* C18 witness: the only cache-creation call has failed and a window
\* analysis is in flight with the inline instruction, the knowledge text
\* still being large enough for a cache.
C18_Witness ==
  /\ refreshes[1].pc = "failed"
  /\ \A p \in RefreshIds \ {1} : refreshes[p].pc = "unused"
  /\ contextChars >= MIN_CACHING_CHARS
  /\ ~isCacheActive /\ cachedContentName = NULL /\ ~isCacheReady
  /\ \E a \in InFlight : analyses[a].kind = "window" /\ analyses[a].inline

\* C19: every request dispatched to the provider, for a window or for the
\* full session, references the cache and carries no inline context when
\* the cache is active at that moment, and carries the inline context and
\* no cache reference otherwise.
C19_CacheOrInline ==
  [][ \A a \in AnalysisIds :
        (analyses[a].pc = "encoding" /\ analyses'[a].pc = "calling")
        => IF isCacheActive
           THEN /\ analyses'[a].cached = cachedContentName
                /\ analyses'[a].cached # NULL
                /\ ~analyses'[a].inline
           ELSE /\ analyses'[a].inline
                /\ analyses'[a].cached = NULL
    ]_vars

\* The cache-creation calls in flight.
Creating == {p \in RefreshIds : refreshes[p].pc = "creating"}

\* The analysis generators that have started and not returned.
Analyzing == {a \in AnalysisIds : analyses[a].pc # "unused"}

\* C20: at most one of the cache refreshes and the analyses is running: no
\* two cache-creation calls are in flight together, and none is in flight
\* together with an analysis.
C20_RefreshAndAnalysisSerialized ==
  Cardinality(Creating) + Cardinality(Analyzing) <= 1

\* C21: capture and an analysis in flight do not interfere. While an
\* analysis has not returned, no step (a push, a resize, a stop, a wipe)
\* changes the audio of its request or takes away its continuation; it
\* ends only in a step of its own, which touches neither the capture
\* session nor the buffers and yields data or an error chunk; and every
\* segment produced is appended to both buffers.
C21_CaptureAndAnalysisIndependent ==
  [][ /\ \A a \in AnalysisIds :
         (analyses[a].pc # "unused")
         => /\ ENABLED Settles(a)
            /\ (analyses'[a].pc # "unused")
                 => (analyses'[a].body = analyses[a].body)
            /\ (analyses'[a].pc = "unused")
                 => (/\ captureVars' = captureVars
                     /\ bufferVars' = bufferVars
                     /\ maxBufferSeconds' = maxBufferSeconds
                     /\ lastChunk' \in {"Data", "none"} \cup ProviderErrors)
      /\ (nextSeg' # nextSeg)
         => (/\ audioChunks' # <<>>
             /\ audioChunks'[Len(audioChunks')] = nextSeg
             /\ fullSessionChunks' = Append(fullSessionChunks, nextSeg))
    ]_vars

\* C21 witness: a request is in flight whose audio ends before the newest
\* segment of the rolling buffer, and capture has been stopped since.
C21_Witness ==
  /\ mediaRecorder = NULL
  /\ audioChunks # <<>>
  /\ \E a \in InFlight :
        /\ analyses[a].kind = "window"
        /\ analyses[a].body # <<>>
        /\ analyses[a].body[Len(analyses[a].body)] < audioChunks[Len(audioChunks)]

\* C22: when a startRecording call fails, in any mode and at any of its
\* awaits or checks, every stream that call acquired has been released, the
\* mixing graph it opened is closed and the service holds no recorder.
C22_FailedStartReleasesAll ==
  [][ \A s \in StartIds :
        (starts[s].pc # "failed" /\ starts'[s].pc = "failed")
        => /\ StreamOf(s, "mic") \notin liveStreams'
           /\ StreamOf(s, "display") \notin liveStreams'
           /\ s \notin openContexts'
           /\ audioContext' = NULL
           /\ mediaRecorder' = NULL
    ]_vars

\* C23: stopRecording is idempotent and releases everything: in every
\* reachable state two calls in a row leave the engine as one call does,
\* and after a call no acquired stream is live, no mixing graph is open and
\* no recorder is held or running.
C23_StopIdempotentReleasesAll ==
  LET once == AfterStop(Engine)
  IN /\ AfterStop(once) = once
     /\ once.liveStreams = {}
     /\ once.openContexts = {}
     /\ once.mediaRecorder = NULL
     /\ \A r \in StartIds : once.recState[r] # "recording"

\* C24: a call of stopRecording, from the stop branch of toggleRecording or
\* from the catch block of a failing start, returns with the rolling buffer,
\* the archive, the header, the usage counters and the cache entry as they
\* were when it was called.
C24_StopFrame ==
  [][ ( \/ pendingTimers' = pendingTimers + 1
        \/ \E s \in StartIds : starts[s].pc # "failed" /\ starts'[s].pc = "failed" )
      => /\ audioChunks' = audioChunks
         /\ fullSessionChunks' = fullSessionChunks
         /\ headerChunk' = headerChunk
         /\ usageStats' = usageStats
         /\ cachedContentName' = cachedContentName
         /\ isCacheActive' = isCacheActive
    ]_vars

\* C24 witness: capture has been stopped with a segment in the buffers, an
\* analysis charged and the cache active.
C24_Witness ==
  /\ mediaRecorder = NULL
  /\ status = "idle"
  /\ pendingTimers > 0
  /\ audioChunks # <<>>
  /\ fullSessionChunks # <<>>
  /\ headerChunk # NULL
  /\ usageStats.analyzedCount > 0
  /\ isCacheActive /\ cachedContentName # NULL

\* C25: analyzedCount, totalAudioSeconds and estimatedCost never decrease
\* in a step other than a wipe, and a wipe sets the three to zero.
C25_CountersMonotone ==
  [][ /\ \/ /\ usageStats'.analyzedCount >= usageStats.analyzedCount
            /\ usageStats'.totalAudioSeconds >= usageStats.totalAudioSeconds
            /\ usageStats'.estimatedCost >= usageStats.estimatedCost
         \/ /\ wiped' /\ produced' = <<>>
            /\ mediaRecorder' = NULL /\ status' = "idle" /\ ~hasRecordedData'
            /\ audioChunks' = <<>> /\ fullSessionChunks' = <<>>
            /\ contextChars' = DefaultChars
      /\ (~wiped /\ wiped') => (usageStats' = ZeroUsage)
    ]_vars

\* C25 witness: the counters a window analysis had raised were wiped while
\* its request was in flight, and the output of that request has been
\* charged since.
C25_Witness ==
  /\ wiped
  /\ usageStats.analyzedCount = 0
  /\ usageStats.totalAudioSeconds = 0
  /\ usageStats.estimatedCost > 0

\* The analyses whose provider call, which carries the audio, is issued in
\* this step.
Issued ==
  {a \in AnalysisIds : analyses[a].pc # "calling" /\ analyses'[a].pc = "calling"}

\* The analysis generators this step starts.
Begun ==
  {a \in AnalysisIds : analyses[a].pc # "encoding" /\ analyses'[a].pc = "encoding"}

\* C26: audio goes to the provider only for an analysis the user triggered,
\* once per trigger. A generator starts only in a trigger step, one per
\* trigger, from rest; a call carrying audio is issued only by a generator
\* so started, as its next step; and once issued the call is never issued
\* again: the generator keeps its request until it returns.
C26_AudioOnlyOnTrigger ==
  [][ /\ Begun # {} => /\ triggers' = triggers + 1
                       /\ Cardinality(Begun) = 1
                       /\ \A a \in Begun : analyses[a].pc = "unused"
      /\ \A a \in Issued : analyses[a].pc = "encoding"
      /\ Cardinality(Issued) <= 1
      /\ Issued # {} => triggers' = triggers
      /\ \A a \in AnalysisIds :
            (analyses[a].pc = "calling")
            => \/ analyses'[a] = IdleAnalysis
               \/ /\ analyses'[a].pc = "calling"
                  /\ analyses'[a].body = analyses[a].body
                  /\ analyses'[a].model = analyses[a].model
    ]_vars

\* C26 witness: the call of the only trigger so far has failed, the
\* generator has returned and capture goes on with audio in the buffer.
C26_Witness ==
  /\ triggers = 1
  /\ lastChunk \in ProviderErrors
  /\ lastError # NoError
  /\ \A a \in AnalysisIds : analyses[a] = IdleAnalysis
  /\ status = "recording"
  /\ audioChunks # <<>>

\* C27: the seconds a window analysis is charged are the number of
\* rolling-buffer segments in the request it sends, whatever was pushed or
\* resized while the request was being prepared.
C27_ChargeMatchesRequest ==
  [][ \A a \in AnalysisIds :
        (/\ analyses[a].kind = "window" /\ analyses[a].pc = "encoding"
         /\ analyses'[a].pc = "calling")
        => usageStats'.totalAudioSeconds - usageStats.totalAudioSeconds
             = analyses'[a].rolling
    ]_vars

\* C28: the audio of every window-analysis request is the header followed
\* by rolling-buffer segments, no segment twice: when the generator takes
\* its snapshot the first element is the header, and the body the request
\* is issued with is strictly increasing in the session's segment indices.
C28_HeaderOnceBodyIncreasing ==
  [][ \A a \in AnalysisIds :
        /\ (analyses[a].pc = "unused" /\ analyses'[a].kind = "window")
           => (analyses'[a].body # <<>> /\ analyses'[a].body[1] = headerChunk)
        /\ (/\ analyses[a].kind = "window" /\ analyses[a].pc = "encoding"
            /\ analyses'[a].pc = "calling")
           => \A i, j \in 1..Len(analyses'[a].body) :
                 (i < j) => (analyses'[a].body[i] < analyses'[a].body[j])
    ]_vars

\* C29: the status the App shows agrees with the engine in every reachable
\* state: RECORDING only while the service holds a recorder that records,
\* IDLE and ERROR only while it holds none.
C29_StatusAgreesWithEngine ==
  /\ (status = "recording") => CaptureActive
  /\ (status \in {"idle", "error"}) => ~CaptureActive

\* C30: every chunk of text an analysis receives is charged at the output
\* rate of the model its request was issued with, whatever model is
\* selected when the chunk arrives.
C30_OutputChargedAtRequestModel ==
  [][ \A a \in AnalysisIds :
        (/\ analyses[a].pc = "calling"
         /\ analyses'[a] # analyses[a]
         /\ lastChunk' = "Data")
        => \E len \in ChunkLens \ {0} :
              usageStats'.estimatedCost - usageStats.estimatedCost
                = len * getRates(analyses[a].model).output
    ]_vars

====
